---- MODULE Spec2Model ----
(***************************************************************************)
(* Model of the product-creation protocol of produzione_main:             *)
(*   - the three product builders (ModularProductCreator, the core        *)
(*     ProductBuilder and the modules/product_creator ProductBuilder),    *)
(*     each driving POST + PUT + GET against the vendor through its own   *)
(*     gateway;                                                            *)
(*   - the split of a variant list into an initial batch and append       *)
(*     batches;                                                            *)
(*   - the fleet orchestrators that iterate the builder.                  *)
(***************************************************************************)
EXTENDS Integers, Sequences, FiniteSets, TLC

\* ------------------------------------------------------------------------
\* Bounds of the model
\* ------------------------------------------------------------------------
MaxVariants == 29      \* longest variant list a build loads
MaxDrop == 1           \* payloads the vendor may silently not create per call
MaxForeign == 1        \* variants another writer may add to the product
MaxPlanLen == 45       \* longest variant list handed to the split alone
MaxDesigns == 2        \* design files handed to a fleet mode
MaxProducts == 3       \* product types a fleet mode iterates over
MaxCreated == 2        \* variants a build of a fleet mode reports as created
TicksPerSecond == 2    \* resolution of the gateway's clock
MaxRetryAfter == 2     \* largest Retry-After delay, in seconds
MaxPaths == 3          \* local paths handed to the file manager
MaxSends == 2          \* upload requests the asset store receives per path

\* ------------------------------------------------------------------------
\* Program constants
\* ------------------------------------------------------------------------
initial_batch_size == 8
max_initial == 20
batch_size == 10
retries_modular == 2       \* make_request(..., retries=2), product_creator_modular
retries_core == 3          \* request(..., retries=3), core/api_client
retries_modules == 3       \* make_request(..., retries=3), modules api_client
min_request_interval == 1  \* seconds, modules api_client

Impls == {"modular", "core", "modules"}
ProductTypes == {"gildan_5000", "yupoong_6089m", "as_colour_1120"}

Min(a, b) == IF a < b THEN a ELSE b
Max(a, b) == IF a > b THEN a ELSE b

\* Python slice s[lo:hi] with 0-based, clamped indices
Slice(s, lo, hi) ==
    LET l == Min(Max(lo, 0), Len(s))
        h == Min(Max(hi, 0), Len(s))
    IN  IF h <= l THEN <<>> ELSE SubSeq(s, l + 1, h)

Catalog(n) == [i \in 1..n |-> i]

\* ------------------------------------------------------------------------
\* Variant Batch Planner: the split as each builder computes it
\* ------------------------------------------------------------------------
InitialSize(im) == IF im = "modules" THEN max_initial ELSE initial_batch_size

InitialBatch(vs, im) == Slice(vs, 0, InitialSize(im))

Remaining(vs, im) == Slice(vs, InitialSize(im), Len(vs))

\* variant of BatchVariants whose slices start one variant early
BatchVariants_Overlapping(rem, bn) ==
    LET start_idx == bn * (batch_size - 1)
        end_idx == Min(start_idx + batch_size, Len(rem))
    IN  Slice(rem, start_idx, end_idx)

\* variant of TotalBatches that rounds down
TotalBatches_Floor(rem) == Len(rem) \div batch_size

\* total_batches = (len(remaining) + batch_size - 1) // batch_size
TotalBatches(rem) == (Len(rem) + batch_size - 1) \div batch_size

\* batch_num is 0-based as in the source
BatchVariants(rem, bn) ==
    LET start_idx == bn * batch_size
        end_idx == Min(start_idx + batch_size, Len(rem))
    IN  Slice(rem, start_idx, end_idx)

\* core: for i in range(0, len(remaining), batch_size): remaining[i:i+batch_size]
CoreRangeLen(rem) == IF Len(rem) = 0 THEN 0 ELSE ((Len(rem) - 1) \div batch_size) + 1

CoreBatch(rem, k) == Slice(rem, k * batch_size, k * batch_size + batch_size)

NumBatches(rem, im) == IF im = "core" THEN CoreRangeLen(rem) ELSE TotalBatches(rem)

BatchOf(rem, bn, im) == IF im = "core" THEN CoreBatch(rem, bn) ELSE BatchVariants(rem, bn)


\* ------------------------------------------------------------------------
\* State
\* ------------------------------------------------------------------------
VARIABLES
    impl,                  \* which builder (and its gateway) runs the build
    product_type,          \* product type of the build
    variants,              \* variant list loaded from the catalog
    pc,                    \* position of the build
    batch_num,             \* 0-based index of the append batch in progress
    product_id,            \* id the builder extracted from the creation response
    sync_variants_result,  \* the builder's known remote variant list
    result,                \* the BuildResult returned
    calls,                 \* vendor calls issued by the build, in order
    uploads,               \* upload requests sent to the asset store
    assets,                \* what asset preparation found: primary upload,
                           \* and the product's own required file
    remote,                \* vendor side: variant list of the product
    remoteProducts,        \* vendor side: products created by this build
    lastRead,              \* variant list of the last read that succeeded
    putLog,                \* append PUTs sent: batch, references, answer
    foreignAdded,          \* variants added by another writer so far
    addedSinceRead,        \* ... of which after the builder's last read
    dropped,               \* foreign variants a PUT removed from the product
    batches,               \* the split alone: batches produced so far
    mode,                  \* fleet: the orchestrator that runs
    design_files,          \* fleet: design files handed to the orchestrator
    available_products,    \* fleet: product types it iterates over
    fleet_pc,              \* fleet: position of the orchestrator
    invoked,               \* fleet: builder invocations <<design, product>>
    results,               \* fleet: BuildResult outcome of each invocation
    aggregate,             \* fleet: what the orchestrator returned
    gw,                    \* gateway alone: which gateway serves the calls
    gw_pc,                 \* gateway: position of the call in progress
    attempt,               \* gateway: 0-based attempt of the retry loop
    elapsed,               \* gateway: time since the last request completed
                           \* and since last_request_time, in ticks
    log,                   \* gateway: requests of the current call, one
                           \* entry per attempt
    gw_outcome,            \* gateway: what the last call gave its caller
    fm,                    \* file manager alone: its cache, the uploader's
                           \* cache and what the asset store has been sent
    pl                     \* placement resolver alone: the position catalog
                           \* and the FileConfig lists it has returned

vars == <<impl, product_type, variants, pc, batch_num, product_id,
          sync_variants_result, result, calls, uploads, assets,
          remote, remoteProducts, lastRead, putLog, foreignAdded, addedSinceRead,
          dropped, batches, mode, design_files, available_products, fleet_pc,
          invoked, results, aggregate, gw, gw_pc, attempt, elapsed, log,
          gw_outcome, fm, pl>>

gwVars == <<gw, gw_pc, attempt, elapsed, log, gw_outcome>>
fmVars == <<fm>>
plVars == <<pl>>
planVars == <<batches>>
fleetVars == <<mode, design_files, available_products, fleet_pc, invoked,
               results, aggregate>>
\* what a single build leaves alone
sideVars == <<planVars, fleetVars, gwVars, fmVars, plVars>>
buildVars == <<impl, product_type, variants>>
vendorVars == <<remote, remoteProducts>>
otherVars == <<foreignAdded, addedSinceRead, dropped>>

NoId == "none"
NullId == "null"
TheId == "p1"

\* remote sync-variant created from catalog variant v; its id is distinct
\* from the catalog's variant_id
SyncVariant(v) == <<"sv", v>>
ForeignVariant(k) == <<"other", k>>

SyncVariantsOf(vs) == [i \in 1..Len(vs) |-> SyncVariant(vs[i])]

Range(s) == {s[i] : i \in 1..Len(s)}

\* ------------------------------------------------------------------------
\* Vendor and gateway
\* ------------------------------------------------------------------------
\* what the vendor does with a request: answers 2xx, answers an error body
\* (4xx/5xx with JSON), or every attempt ends in a transport failure
Answers == {"ok", "err", "down"}

\* a 2xx creation answer may still lack the result or a usable id
PostAnswers == Answers \cup {"noresult", "noid", "nullid"}

\* modular/modules gateways return any parsed body; the core gateway calls
\* raise_for_status, so an error status ends in an exception as well
GatewayReturn(im, ans) ==
    CASE ans = "down" -> "raise"
      [] ans = "err" -> IF im = "core" THEN "raise" ELSE "err"
      [] OTHER -> ans

\* the vendor creates the first k of the payloads it was sent
Accepted(new) == {Slice(new, 0, k) : k \in Max(0, Len(new) - MaxDrop)..Len(new)}

\* a product that does not exist cannot be read or updated
AnswersFor(pid) == IF pid = TheId THEN Answers ELSE {"err", "down"}

\* ------------------------------------------------------------------------
\* BuildResult
\* ------------------------------------------------------------------------
Pending == [pending |-> TRUE]

Failed(err) == [success |-> FALSE, error |-> err]

\* variant of Success that reports the requested count as created
Success_ReportsRequested(pid, svs, n) ==
    [success |-> TRUE, product_id |-> pid, sync_variants |-> svs,
     total_variants_created |-> n, total_variants_requested |-> n]

Success(pid, svs, n) ==
    [success |-> TRUE, product_id |-> pid, sync_variants |-> svs,
     total_variants_created |-> Len(svs), total_variants_requested |-> n]

\* except Exception as e: the modular creator prefixes the message, the
\* other two return str(e)
Caught(im, msg) ==
    IF im = "modular"
    THEN Failed(<<"Errore durante creazione prodotto", msg>>)
    ELSE Failed(<<msg>>)

Return(res) == pc' = "done" /\ result' = res

\* no split-only run in progress
PlanIdle == batches = <<>>

\* no fleet mode in progress
FleetIdle ==
    /\ mode = "none"
    /\ design_files = <<>>
    /\ available_products = <<>>
    /\ fleet_pc = "idle"
    /\ invoked = <<>>
    /\ results = <<>>
    /\ aggregate = Pending

\* no call through a gateway alone in progress
GwIdle ==
    /\ gw = "none"
    /\ gw_pc = "idle"
    /\ attempt = 0
    /\ elapsed = [completion |-> 0, recorded |-> 0, any |-> FALSE]
    /\ log = <<>>
    /\ gw_outcome = Pending

\* no file manager session alone in progress
FmIdle == fm = [idle |-> TRUE]
PlIdle == pl = [idle |-> TRUE]

Init ==
    /\ PlanIdle
    /\ FleetIdle
    /\ GwIdle
    /\ FmIdle
    /\ PlIdle
    /\ impl \in Impls
    \* only the core builder branches on the product type
    /\ product_type \in (IF impl = "core" THEN ProductTypes ELSE {"gildan_5000"})
    /\ variants \in {Catalog(n) : n \in 0..MaxVariants}
    /\ pc = "load"
    /\ batch_num = 0
    /\ product_id = NoId
    /\ sync_variants_result = <<>>
    /\ result = Pending
    /\ calls = <<>>
    /\ uploads = 0
    /\ assets = [design |-> "none", special |-> "none"]
    /\ remote = <<>>
    /\ remoteProducts = 0
    /\ lastRead = <<>>
    /\ putLog = <<>>
    /\ foreignAdded = 0
    /\ addedSinceRead = {}
    /\ dropped = {}

\* ------------------------------------------------------------------------
\* Steps shared by the builders
\* ------------------------------------------------------------------------
remaining_variants == Remaining(variants, impl)
initial_variants == InitialBatch(variants, impl)
total_batches == NumBatches(remaining_variants, impl)

\* variant of existing_variant_refs that takes the references from the
\* product as it is when the PUT is sent
existing_variant_refs_AtWrite == remote

\* existing_variant_refs = [{"id": existing.get("id")} for existing in ...]
existing_variant_refs == sync_variants_result

\* vendor side of POST /store/products: a 2xx answer creates the product
\* with the payloads the vendor accepted
VendorPost(ans, acc) ==
    IF ans \in {"ok", "noresult", "noid", "nullid"}
    THEN remote' = acc /\ remoteProducts' = remoteProducts + 1
    ELSE UNCHANGED vendorVars

\* vendor side of PUT /store/products/{id}: the variant set is replaced by
\* exactly what was sent
VendorPut(ans, refs, acc) ==
    /\ remote' = IF ans = "ok" THEN refs \o acc ELSE remote
    /\ remoteProducts' = remoteProducts
    /\ dropped' = dropped \cup
         {x \in Range(remote) \ Range(remote') : x[1] = "other"}

\* a read that succeeded: the builder now knows the remote list
ReadOk ==
    /\ sync_variants_result' = remote
    /\ lastRead' = remote
    /\ addedSinceRead' = {}

\* one vendor call through the gateway: method, the step issuing it, the
\* vendor's answer and what the gateway hands back to the builder
Call(m, ans, r) ==
    calls' = Append(calls, [m |-> m, step |-> pc, ans |-> ans, r |-> r])

LogPut(refs, r) ==
    putLog' = Append(putLog,
        [batch |-> batch_num + 1, refs |-> refs, read |-> lastRead, resp |-> r])

\* variant of NextBatch that goes round the loop without advancing
NextBatch_Repeats ==
    IF batch_num + 1 < total_batches
    THEN batch_num' = batch_num /\ pc' = "put"
    ELSE batch_num' = batch_num /\ pc' = "final"

\* end of one iteration of the append loop
NextBatch ==
    IF batch_num + 1 < total_batches
    THEN batch_num' = batch_num + 1 /\ pc' = "put"
    ELSE batch_num' = batch_num /\ pc' = "final"

\* variants = self.variant_loader.load_product_variants(product_type),
\* inside the build's try block in all three builders
LoadVariants ==
    /\ pc = "load"
    /\ \E loaded \in BOOLEAN :
         IF loaded
         THEN pc' = "prepare" /\ result' = result
         ELSE Return(Caught(impl, "load"))
    /\ UNCHANGED <<sideVars, buildVars,
                   batch_num, product_id, sync_variants_result,
                   calls, uploads, assets, vendorVars, lastRead, putLog,
                   otherVars>>

\* another writer adds a variant to the same remote product
OtherWriter ==
    /\ remoteProducts > 0
    /\ pc # "done"
    /\ foreignAdded < MaxForeign
    /\ foreignAdded' = foreignAdded + 1
    /\ remote' = Append(remote, ForeignVariant(foreignAdded + 1))
    /\ addedSinceRead' = addedSinceRead \cup {ForeignVariant(foreignAdded + 1)}
    /\ UNCHANGED <<sideVars, buildVars,
                   pc, batch_num, product_id, sync_variants_result,
                   result, calls, uploads, assets, remoteProducts, lastRead,
                   putLog,
                   dropped>>

\* ------------------------------------------------------------------------
\* ModularProductCreator._build_single_product
\* ------------------------------------------------------------------------
\* the primary design: uploaded, not on disk, or the upload fails
UploadOutcomes == {"ok", "missing", "neterr"}

\* an optional file: not on disk, uploaded, or the upload fails
FileOutcomes == {"absent", "ok", "neterr"}

\* message of the exception upload_image raises ("" when it returns a URL)
UploadError(outcome) ==
    CASE outcome = "missing" -> "Immagine non trovata"
      [] outcome = "neterr" -> "Errore rete Cloudinary"
      [] OTHER -> ""

\* upload requests that reach the asset store: a missing file raises
\* FileNotFoundError before any request
Requests(outcome) == IF outcome \in {"ok", "neterr"} THEN 1 ELSE 0

\* variant of PrepareUrls that guards the primary upload like the others
PrepareUrls_Guarded(design, logo, upscaled) ==
    [n |-> Requests(design) + Requests(logo) + Requests(upscaled), err |-> ""]

\* _prepare_urls: the primary upload is not guarded, the optional ones
\* swallow their exceptions. Gives the number of upload requests and the
\* message of the exception raised ("" for none).
PrepareUrls(design, logo, upscaled) ==
    IF design # "ok"
    THEN [n |-> Requests(design), err |-> UploadError(design)]
    ELSE [n |-> 1 + Requests(logo) + Requests(upscaled), err |-> ""]

Modular_PrepareUrls ==
    /\ impl = "modular"
    /\ pc = "prepare"
    /\ \E design \in UploadOutcomes, logo, upscaled \in FileOutcomes :
         LET p == PrepareUrls(design, logo, upscaled) IN
         /\ uploads' = uploads + p.n
         /\ assets' = [design |-> design, special |-> "none"]
         /\ IF p.err # ""
            THEN Return(Caught(impl, p.err))
            ELSE pc' = "post" /\ result' = result
    /\ UNCHANGED <<sideVars, buildVars,
                   batch_num, product_id, sync_variants_result,
                   calls, vendorVars, lastRead, putLog, otherVars>>

Modular_CreateInitial ==
    /\ impl = "modular"
    /\ pc = "post"
    /\ \E ans \in PostAnswers, acc \in Accepted(SyncVariantsOf(initial_variants)) :
         LET r == GatewayReturn(impl, ans) IN
         /\ Call("POST", ans, r)
         /\ VendorPost(ans, acc)
         /\ CASE r = "raise" ->
                   Return(Caught(impl, "transport")) /\ product_id' = product_id
              [] r \in {"err", "noresult"} ->
                   /\ Return(Failed(<<"Creazione prodotto base fallita", r>>))
                   /\ product_id' = product_id
              [] r \in {"noid", "nullid"} ->
                   /\ Return(Failed(<<"ID prodotto non trovato nella risposta", r>>))
                   /\ product_id' = product_id
              [] OTHER ->
                   /\ product_id' = TheId
                   /\ pc' = "get0"
                   /\ result' = result
    /\ UNCHANGED <<sideVars, buildVars,
                   batch_num, sync_variants_result, uploads, assets,
                   lastRead, putLog, otherVars>>

Modular_GetCreated ==
    /\ impl = "modular"
    /\ pc = "get0"
    /\ \E ans \in AnswersFor(product_id) :
         LET r == GatewayReturn(impl, ans) IN
         /\ Call("GET", ans, r)
         /\ CASE r = "raise" ->
                   /\ Return(Caught(impl, "transport"))
                   /\ UNCHANGED <<sync_variants_result, lastRead, addedSinceRead>>
              [] r = "err" ->
                   /\ Return(Failed(<<"Errore nel recuperare info prodotto", r>>))
                   /\ UNCHANGED <<sync_variants_result, lastRead, addedSinceRead>>
              [] OTHER ->
                   /\ ReadOk
                   /\ pc' = IF Len(remaining_variants) > 0 THEN "put" ELSE "final"
                   /\ result' = result
    /\ UNCHANGED <<sideVars, buildVars,
                   batch_num, product_id, uploads, assets, vendorVars,
                   putLog, foreignAdded, dropped>>

Modular_PutBatch ==
    /\ impl = "modular"
    /\ pc = "put"
    /\ \E ans \in AnswersFor(product_id),
          acc \in Accepted(SyncVariantsOf(BatchOf(remaining_variants, batch_num, impl))) :
         LET r == GatewayReturn(impl, ans) IN
         /\ Call("PUT", ans, r)
         /\ LogPut(existing_variant_refs, r)
         /\ VendorPut(ans, existing_variant_refs, acc)
         /\ CASE r = "raise" ->
                   Return(Caught(impl, "transport")) /\ batch_num' = batch_num
              [] r = "err" ->
                   NextBatch /\ result' = result
              [] OTHER ->
                   pc' = "reget" /\ batch_num' = batch_num /\ result' = result
    /\ UNCHANGED <<sideVars, buildVars,
                   product_id, sync_variants_result, uploads, assets,
                   lastRead, foreignAdded, addedSinceRead>>

Modular_RereadAfterPut ==
    /\ impl = "modular"
    /\ pc = "reget"
    /\ \E ans \in AnswersFor(product_id) :
         LET r == GatewayReturn(impl, ans) IN
         /\ Call("GET", ans, r)
         /\ CASE r = "raise" ->
                   /\ Return(Caught(impl, "transport"))
                   /\ UNCHANGED <<batch_num, sync_variants_result, lastRead,
                                  addedSinceRead>>
              [] r = "err" ->
                   /\ NextBatch
                   /\ UNCHANGED <<result, sync_variants_result, lastRead,
                                  addedSinceRead>>
              [] OTHER ->
                   ReadOk /\ NextBatch /\ result' = result
    /\ UNCHANGED <<sideVars, buildVars,
                   product_id, uploads, assets, vendorVars, putLog,
                   foreignAdded, dropped>>

Modular_FinalGet ==
    /\ impl = "modular"
    /\ pc = "final"
    /\ \E ans \in AnswersFor(product_id) :
         LET r == GatewayReturn(impl, ans) IN
         /\ Call("GET", ans, r)
         /\ CASE r = "raise" ->
                   /\ Return(Caught(impl, "transport"))
                   /\ UNCHANGED <<sync_variants_result, lastRead, addedSinceRead>>
              [] r = "err" ->
                   /\ Return(Success(product_id, sync_variants_result, Len(variants)))
                   /\ UNCHANGED <<sync_variants_result, lastRead, addedSinceRead>>
              [] OTHER ->
                   /\ Return(Success(product_id, remote, Len(variants)))
                   /\ lastRead' = remote
                   /\ addedSinceRead' = {}
                   /\ sync_variants_result' = sync_variants_result
    /\ UNCHANGED <<sideVars, buildVars,
                   batch_num, product_id, uploads, assets, vendorVars,
                   putLog, foreignAdded, dropped>>

\* ------------------------------------------------------------------------
\* core ProductBuilder.build (gateway: core PrintfulAPIClient.request)
\* ------------------------------------------------------------------------
\* FileManager.prepare_urls: every upload goes through _upload_with_cache
\* and none is guarded. cached: the paths are in the session's cache.
\* Gives the number of upload requests and the error raised ("" for none).
PrepareUrlsStd(cached, design, logo, upscaled) ==
    CASE cached -> [n |-> 0, err |-> ""]
      [] design # "ok" -> [n |-> Requests(design), err |-> UploadError(design)]
      [] logo = "neterr" -> [n |-> 2, err |-> UploadError(logo)]
      [] upscaled = "neterr" ->
            [n |-> 2 + Requests(logo), err |-> UploadError(upscaled)]
      [] OTHER ->
            [n |-> 1 + Requests(logo) + Requests(upscaled), err |-> ""]

\* _prepare_urls_for_product: the standard uploads come first, then the
\* product's own assets. special: the left-aligned image (yupoong) or the
\* ricami/<design>.png file (as_colour_1120); side: generate/logo_black.png
PrepareUrlsForProduct(pt, cached, design, logo, upscaled, special, side) ==
    LET std == PrepareUrlsStd(cached, design, logo, upscaled) IN
    CASE std.err # "" -> std
      [] pt = "yupoong_6089m" ->
            \* try: create_left_aligned_image + upload; except: pass
            LET n1 == std.n + Requests(special) IN
            IF side = "neterr"
            THEN [n |-> n1 + 1, err |-> UploadError(side)]
            ELSE [n |-> n1 + Requests(side), err |-> ""]
      [] pt = "as_colour_1120" ->
            CASE special = "absent" ->
                   [n |-> std.n, err |-> "File ottimizzato per beanie non trovato"]
              [] special = "neterr" ->
                   [n |-> std.n + 1, err |-> UploadError(special)]
              [] OTHER -> [n |-> std.n + 1, err |-> ""]
      [] OTHER -> std

Core_PrepareUrls ==
    /\ impl = "core"
    /\ pc = "prepare"
    /\ \E cached \in BOOLEAN, design \in UploadOutcomes,
          logo, upscaled, special, side \in FileOutcomes :
         LET p == PrepareUrlsForProduct(product_type, cached, design, logo,
                                        upscaled, special, side) IN
         /\ uploads' = uploads + p.n
         /\ assets' = [design |-> IF cached THEN "cached" ELSE design,
                       special |-> IF product_type = "as_colour_1120"
                                   THEN special ELSE "none"]
         /\ IF p.err # ""
            THEN Return(Caught(impl, p.err))
            ELSE pc' = "post" /\ result' = result
    /\ UNCHANGED <<sideVars, buildVars,
                   batch_num, product_id, sync_variants_result,
                   calls, vendorVars, lastRead, putLog, otherVars>>

\* for i in range(0, len(remaining), batch_size): _add_variants_batch(...)
CoreNextBatch ==
    IF batch_num + 1 < total_batches
    THEN batch_num' = batch_num + 1 /\ pc' = "bget"
    ELSE batch_num' = batch_num /\ pc' = "final"

\* _create_product, phase 1
Core_CreatePost ==
    /\ impl = "core"
    /\ pc = "post"
    /\ \E ans \in PostAnswers, acc \in Accepted(SyncVariantsOf(initial_variants)) :
         LET r == GatewayReturn(impl, ans) IN
         /\ Call("POST", ans, r)
         /\ VendorPost(ans, acc)
         /\ CASE r = "raise" ->
                   Return(Caught(impl, "transport")) /\ product_id' = product_id
              [] r = "err" ->
                   Return(Caught(impl, "Creazione fallita")) /\ product_id' = product_id
              [] r \in {"noresult", "noid"} ->
                   Return(Caught(impl, "KeyError")) /\ product_id' = product_id
              [] OTHER ->
                   /\ product_id' = IF r = "nullid" THEN NullId ELSE TheId
                   /\ pc' = IF Len(remaining_variants) > 0 THEN "bget" ELSE "final"
                   /\ result' = result
    /\ UNCHANGED <<sideVars, buildVars,
                   batch_num, sync_variants_result, uploads, assets,
                   lastRead, putLog, otherVars>>

\* _add_variants_batch: GET the existing variants ...
Core_GetExisting ==
    /\ impl = "core"
    /\ pc = "bget"
    /\ \E ans \in AnswersFor(product_id) :
         LET r == GatewayReturn(impl, ans) IN
         /\ Call("GET", ans, r)
         /\ IF r = "ok"
            THEN ReadOk /\ pc' = "put" /\ result' = result
            ELSE /\ Return(Caught(impl, "transport"))
                 /\ UNCHANGED <<sync_variants_result, lastRead, addedSinceRead>>
    /\ UNCHANGED <<sideVars, buildVars,
                   batch_num, product_id, uploads, assets, vendorVars,
                   putLog, foreignAdded, dropped>>

\* ... then PUT existing + new; the response is not inspected
Core_PutBatch ==
    /\ impl = "core"
    /\ pc = "put"
    /\ \E ans \in AnswersFor(product_id),
          acc \in Accepted(SyncVariantsOf(BatchOf(remaining_variants, batch_num, impl))) :
         LET r == GatewayReturn(impl, ans) IN
         /\ Call("PUT", ans, r)
         /\ LogPut(existing_variant_refs, r)
         /\ VendorPut(ans, existing_variant_refs, acc)
         /\ IF r = "raise"
            THEN Return(Caught(impl, "transport")) /\ batch_num' = batch_num
            ELSE CoreNextBatch /\ result' = result
    /\ UNCHANGED <<sideVars, buildVars,
                   product_id, sync_variants_result, uploads, assets,
                   lastRead, foreignAdded, addedSinceRead>>

CoreSuccess(pid, svs) ==
    [success |-> TRUE, product_id |-> pid, variants_count |-> Len(svs),
     result |-> svs]

\* build: final_product = self.api.get(...)
Core_FinalGet ==
    /\ impl = "core"
    /\ pc = "final"
    /\ \E ans \in AnswersFor(product_id) :
         LET r == GatewayReturn(impl, ans) IN
         /\ Call("GET", ans, r)
         /\ IF r = "ok"
            THEN /\ Return(CoreSuccess(product_id, remote))
                 /\ lastRead' = remote
                 /\ addedSinceRead' = {}
            ELSE /\ Return(Caught(impl, "transport"))
                 /\ UNCHANGED <<lastRead, addedSinceRead>>
    /\ UNCHANGED <<sideVars, buildVars,
                   batch_num, product_id, sync_variants_result,
                   uploads, assets, vendorVars, putLog, foreignAdded, dropped>>

\* ------------------------------------------------------------------------
\* modules/product_creator ProductBuilder.build_single_product
\* ------------------------------------------------------------------------
\* _prepare_product_urls: as _prepare_urls, the primary upload's exception
\* re-raised as "Errore upload design: <message>"
Mod_PrepareUrls ==
    /\ impl = "modules"
    /\ pc = "prepare"
    /\ \E design \in UploadOutcomes, logo, upscaled \in FileOutcomes :
         LET p == PrepareUrls(design, logo, upscaled) IN
         /\ uploads' = uploads + p.n
         /\ assets' = [design |-> design, special |-> "none"]
         /\ IF p.err # ""
            THEN Return(Failed(<<"Errore upload design", p.err>>))
            ELSE pc' = "post" /\ result' = result
    /\ UNCHANGED <<sideVars, buildVars,
                   batch_num, product_id, sync_variants_result,
                   calls, vendorVars, lastRead, putLog, otherVars>>

\* _create_initial_product, then
\* product_id = creation_response["result"]["sync_product"]["id"]
Mod_CreateInitial ==
    /\ impl = "modules"
    /\ pc = "post"
    /\ \E ans \in PostAnswers, acc \in Accepted(SyncVariantsOf(initial_variants)) :
         LET r == GatewayReturn(impl, ans) IN
         /\ Call("POST", ans, r)
         /\ VendorPost(ans, acc)
         /\ CASE r = "raise" ->
                   Return(Caught(impl, "transport")) /\ product_id' = product_id
              [] r = "err" ->
                   /\ Return(Caught(impl, "Errore creazione prodotto"))
                   /\ product_id' = product_id
              [] r \in {"noresult", "noid"} ->
                   Return(Caught(impl, "KeyError")) /\ product_id' = product_id
              [] OTHER ->
                   /\ product_id' = IF r = "nullid" THEN NullId ELSE TheId
                   /\ pc' = IF Len(remaining_variants) > 0 THEN "get0" ELSE "final"
                   /\ result' = result
    /\ UNCHANGED <<sideVars, buildVars,
                   batch_num, sync_variants_result, uploads, assets,
                   lastRead, putLog, otherVars>>

\* _add_remaining_variants_batch: the read before the loop
Mod_GetCurrent ==
    /\ impl = "modules"
    /\ pc = "get0"
    /\ \E ans \in AnswersFor(product_id) :
         LET r == GatewayReturn(impl, ans) IN
         /\ Call("GET", ans, r)
         /\ CASE r = "raise" ->
                   /\ Return(Caught(impl, "transport"))
                   /\ UNCHANGED <<sync_variants_result, lastRead, addedSinceRead>>
              [] r = "err" ->
                   /\ Return(Caught(impl, "Errore recupero prodotto"))
                   /\ UNCHANGED <<sync_variants_result, lastRead, addedSinceRead>>
              [] OTHER ->
                   ReadOk /\ pc' = "put" /\ result' = result
    /\ UNCHANGED <<sideVars, buildVars,
                   batch_num, product_id, uploads, assets, vendorVars,
                   putLog, foreignAdded, dropped>>

Mod_PutBatch ==
    /\ impl = "modules"
    /\ pc = "put"
    /\ \E ans \in AnswersFor(product_id),
          acc \in Accepted(SyncVariantsOf(BatchOf(remaining_variants, batch_num, impl))) :
         LET r == GatewayReturn(impl, ans) IN
         /\ Call("PUT", ans, r)
         /\ LogPut(existing_variant_refs, r)
         /\ VendorPut(ans, existing_variant_refs, acc)
         /\ CASE r = "raise" ->
                   Return(Caught(impl, "transport")) /\ batch_num' = batch_num
              [] r = "err" ->
                   NextBatch /\ result' = result
              [] OTHER ->
                   pc' = "reget" /\ batch_num' = batch_num /\ result' = result
    /\ UNCHANGED <<sideVars, buildVars,
                   product_id, sync_variants_result, uploads, assets,
                   lastRead, foreignAdded, addedSinceRead>>

Mod_RereadAfterPut ==
    /\ impl = "modules"
    /\ pc = "reget"
    /\ \E ans \in AnswersFor(product_id) :
         LET r == GatewayReturn(impl, ans) IN
         /\ Call("GET", ans, r)
         /\ CASE r = "raise" ->
                   /\ Return(Caught(impl, "transport"))
                   /\ UNCHANGED <<batch_num, sync_variants_result, lastRead,
                                  addedSinceRead>>
              [] r = "err" ->
                   /\ NextBatch
                   /\ UNCHANGED <<result, sync_variants_result, lastRead,
                                  addedSinceRead>>
              [] OTHER ->
                   ReadOk /\ NextBatch /\ result' = result
    /\ UNCHANGED <<sideVars, buildVars,
                   product_id, uploads, assets, vendorVars, putLog,
                   foreignAdded, dropped>>

Mod_FinalGet ==
    /\ impl = "modules"
    /\ pc = "final"
    /\ \E ans \in AnswersFor(product_id) :
         LET r == GatewayReturn(impl, ans) IN
         /\ Call("GET", ans, r)
         /\ CASE r = "raise" ->
                   /\ Return(Caught(impl, "transport"))
                   /\ UNCHANGED <<lastRead, addedSinceRead>>
              [] r = "err" ->
                   /\ Return(Failed(<<"Errore recupero stato finale", r>>))
                   /\ UNCHANGED <<lastRead, addedSinceRead>>
              [] OTHER ->
                   /\ Return(Success(product_id, remote, Len(variants)))
                   /\ lastRead' = remote
                   /\ addedSinceRead' = {}
    /\ UNCHANGED <<sideVars, buildVars,
                   batch_num, product_id, sync_variants_result,
                   uploads, assets, vendorVars, putLog, foreignAdded, dropped>>

Next ==
    \/ LoadVariants
    \/ OtherWriter
    \/ Modular_PrepareUrls
    \/ Modular_CreateInitial
    \/ Modular_GetCreated
    \/ Modular_PutBatch
    \/ Modular_RereadAfterPut
    \/ Modular_FinalGet
    \/ Core_PrepareUrls
    \/ Core_CreatePost
    \/ Core_GetExisting
    \/ Core_PutBatch
    \/ Core_FinalGet
    \/ Mod_PrepareUrls
    \/ Mod_CreateInitial
    \/ Mod_GetCurrent
    \/ Mod_PutBatch
    \/ Mod_RereadAfterPut
    \/ Mod_FinalGet

Spec == Init /\ [][Next]_vars

\* ------------------------------------------------------------------------
\* The split alone (specification SpecPlan): the builders' slicing of a
\* variant list into the initial batch and the append batches, with every
\* vendor answer left out
\* ------------------------------------------------------------------------
restVars == <<product_type, product_id, sync_variants_result, result, calls,
              uploads, assets, vendorVars, lastRead, putLog, otherVars, gwVars, fmVars, plVars>>

\* a build that has not been started
RestIdle ==
    /\ product_type = "gildan_5000"
    /\ product_id = NoId
    /\ sync_variants_result = <<>>
    /\ result = Pending
    /\ calls = <<>>
    /\ uploads = 0
    /\ assets = [design |-> "none", special |-> "none"]
    /\ remote = <<>>
    /\ remoteProducts = 0
    /\ lastRead = <<>>
    /\ putLog = <<>>
    /\ foreignAdded = 0
    /\ addedSinceRead = {}
    /\ dropped = {}

PlanInit ==
    /\ FleetIdle
    /\ GwIdle
    /\ FmIdle
    /\ PlIdle
    /\ RestIdle
    /\ impl \in Impls
    /\ variants \in {Catalog(n) : n \in 0..MaxPlanLen}
    /\ pc = "split"
    /\ batch_num = 0
    /\ batches = <<>>

\* initial_variants = variants[:initial_batch_size]; remaining = the rest
SplitInitial ==
    /\ pc = "split"
    /\ batches' = <<initial_variants>>
    /\ pc' = IF total_batches > 0 THEN "split_append" ELSE "split_done"
    /\ UNCHANGED <<fleetVars, restVars, buildVars, batch_num>>

\* one pass of the append loop: the slice of batch batch_num
SplitAppend ==
    /\ pc = "split_append"
    /\ batches' = Append(batches, BatchOf(remaining_variants, batch_num, impl))
    /\ batch_num' = batch_num + 1
    /\ pc' = IF batch_num + 1 < total_batches THEN "split_append" ELSE "split_done"
    /\ UNCHANGED <<fleetVars, restVars, buildVars>>

PlanNext == SplitInitial \/ SplitAppend

SpecPlan == PlanInit /\ [][PlanNext]_vars

\* ------------------------------------------------------------------------
\* Fleet modes (specification SpecFleet): the orchestrators that call a
\* builder once per (design, product type); a build is one step here and
\* its BuildResult is either outcome the builders can return
\* ------------------------------------------------------------------------
FleetModes == {"modular_all", "clean_all", "bp_all", "bp_single", "bp_massive"}
\* the BuildResult of one build as the orchestrators read it
BuildOutcomes ==
    {[success |-> TRUE, total_variants_created |-> n] : n \in 0..MaxCreated}
        \cup {[success |-> FALSE, total_variants_created |-> 0]}

Design(i) == <<"design", i>>
Product(i) == <<"product", i>>
DesignFiles(n) == [i \in 1..n |-> Design(i)]
Products(n) == [i \in 1..n |-> Product(i)]

\* names bound at module level in modules/product_creator/batch_processor.py
BatchProcessorGlobals == {"time", "Dict", "List", "ProductBuilder", "BatchProcessor"}

\* evaluating a global name that is not bound raises NameError
Resolves(name) == name \in BatchProcessorGlobals

Raised(exc) == [raised |-> exc]

Created == Len(SelectSeq(results, LAMBDA o : o.success))

RECURSIVE SumCreated(_)
\* total_variants += result.get("total_variants_created", 0) per success
SumCreated(rs) ==
    IF rs = <<>> THEN 0
    ELSE (IF Head(rs).success THEN Head(rs).total_variants_created ELSE 0)
             + SumCreated(Tail(rs))

FleetInit ==
    /\ PlanIdle
    /\ GwIdle
    /\ FmIdle
    /\ PlIdle
    /\ RestIdle
    /\ impl = "modular"
    /\ variants = <<>>
    /\ pc = "idle"
    /\ batch_num = 0
    /\ mode \in FleetModes
    /\ design_files \in (IF mode \in {"bp_single", "bp_massive"}
                         THEN {DesignFiles(n) : n \in 0..MaxDesigns}
                         ELSE {<<Design(i)>> : i \in 1..MaxDesigns})
    /\ available_products \in (IF mode = "bp_single"
                               THEN {<<Product(i)>> : i \in 1..MaxProducts}
                               ELSE {Products(n) : n \in 0..MaxProducts})
    /\ fleet_pc = "start"
    /\ invoked = <<>>
    /\ results = <<>>
    /\ aggregate = Pending

fleetRest == <<planVars, restVars, buildVars, pc, batch_num, mode, design_files,
               available_products>>

\* one pass of a loop over the product types of one design: the builder is
\* invoked and its BuildResult stored
BuildNextProduct ==
    \E outcome \in BuildOutcomes :
        /\ invoked' = Append(invoked,
                             <<design_files[1], available_products[Len(invoked) + 1]>>)
        /\ results' = Append(results, outcome)
        /\ fleet_pc' = "loop"
        /\ aggregate' = aggregate

\* ModularProductCreator._process_all_products: the loop body
Modular_ProcessAll_Build ==
    /\ mode = "modular_all"
    /\ fleet_pc \in {"start", "loop"}
    /\ Len(invoked) < Len(available_products)
    /\ BuildNextProduct
    /\ UNCHANGED fleetRest

\* ... and its return once the loop is over
Modular_ProcessAll_Return ==
    /\ mode = "modular_all"
    /\ fleet_pc \in {"start", "loop"}
    /\ Len(invoked) = Len(available_products)
    /\ fleet_pc' = "returned"
    /\ aggregate' = [success |-> Created > 0,
                     total_products |-> Len(available_products),
                     products_created |-> Created,
                     total_variants |-> SumCreated(results)]
    /\ UNCHANGED <<fleetRest, invoked, results>>

\* ProductCreator.create_all_products: the loop body (create_product)
Clean_CreateAll_Build ==
    /\ mode = "clean_all"
    /\ fleet_pc \in {"start", "loop"}
    /\ Len(invoked) < Len(available_products)
    /\ BuildNextProduct
    /\ UNCHANGED fleetRest

\* ... and its return once the loop is over
Clean_CreateAll_Return ==
    /\ mode = "clean_all"
    /\ fleet_pc \in {"start", "loop"}
    /\ Len(invoked) = Len(available_products)
    /\ fleet_pc' = "returned"
    /\ aggregate' = [total_products |-> Len(available_products),
                     success_count |-> Created,
                     failure_count |-> Len(available_products) - Created]
    /\ UNCHANGED <<fleetRest, invoked, results>>

\* BatchProcessor.process_all_products: os.path.basename(design_file) is
\* evaluated before the loop and outside any try
BP_ProcessAllProducts ==
    /\ mode = "bp_all"
    /\ fleet_pc = "start"
    /\ IF Resolves("os")
       THEN fleet_pc' = "loop" /\ aggregate' = aggregate
       ELSE fleet_pc' = "raised" /\ aggregate' = Raised("NameError")
    /\ UNCHANGED <<fleetRest, invoked, results>>

\* BatchProcessor.process_single_product_batch: os.path.basename is the
\* first statement of the loop body, outside the try
BP_ProcessSingleProductBatch ==
    /\ mode = "bp_single"
    /\ fleet_pc = "start"
    /\ IF design_files = <<>>
       THEN /\ fleet_pc' = "returned"
            /\ aggregate' = [success |-> Created > 0,
                             total_designs |-> Len(design_files),
                             products_created |-> Created,
                             total_variants |-> SumCreated(results),
                             results |-> <<>>,
                             errors |-> <<>>]
       ELSE IF Resolves("os")
            THEN fleet_pc' = "loop" /\ aggregate' = aggregate
            ELSE fleet_pc' = "raised" /\ aggregate' = Raised("NameError")
    /\ UNCHANGED <<fleetRest, invoked, results>>

\* BatchProcessor.process_massive_batch: os.path.basename is the first
\* statement of the loop over the designs; with no design the success rate
\* divides by total_operations = 0
BP_ProcessMassiveBatch ==
    /\ mode = "bp_massive"
    /\ fleet_pc = "start"
    /\ LET total_operations == Len(design_files) * Len(available_products) IN
       IF design_files # <<>>
       THEN IF Resolves("os")
            THEN fleet_pc' = "loop" /\ aggregate' = aggregate
            ELSE fleet_pc' = "raised" /\ aggregate' = Raised("NameError")
       ELSE IF total_operations = 0
            THEN fleet_pc' = "raised" /\ aggregate' = Raised("ZeroDivisionError")
            ELSE fleet_pc' = "returned" /\ aggregate' = [success |-> FALSE]
    /\ UNCHANGED <<fleetRest, invoked, results>>

FleetNext ==
    \/ Modular_ProcessAll_Build
    \/ Modular_ProcessAll_Return
    \/ Clean_CreateAll_Build
    \/ Clean_CreateAll_Return
    \/ BP_ProcessAllProducts
    \/ BP_ProcessSingleProductBatch
    \/ BP_ProcessMassiveBatch

SpecFleet == FleetInit /\ [][FleetNext]_vars

\* ------------------------------------------------------------------------
\* Properties of one build (specification Spec)
\* ------------------------------------------------------------------------
Done == pc = "done"
LastCall == calls[Len(calls)]
LoopSteps == {"put", "reget", "bget"}
BatchesSent == {putLog[k].batch : k \in 1..Len(putLog)}
Methods == {calls[i].m : i \in 1..Len(calls)}

\* C1: in ModularProductCreator._build_single_product, once the PUT of
\* append batch i has returned a non-success response, every later batch
\* i+1..n is sent, each with the references of the last successful read,
\* and the returned total_variants_created is the size of the last
\* successful read.
C1_AppendLoopSafety ==
    (impl = "modular" /\ Done) =>
        \A k \in 1..Len(putLog) :
            putLog[k].resp = "err" =>
                /\ \A j \in (putLog[k].batch + 1)..total_batches :
                      \E m \in 1..Len(putLog) :
                          /\ putLog[m].batch = j
                          /\ putLog[m].refs = putLog[m].read
                /\ result.success
                /\ result.total_variants_created = Len(lastRead)

\* C3: the read-then-replace append is not atomic: a variant another
\* writer added after the builder's read and before its PUT is absent from
\* the product once the PUT has been applied.
C3_ReplaceDropsConcurrentAdd ==
    [][(Len(putLog') > Len(putLog) /\ putLog'[Len(putLog')].resp = "ok")
          => addedSinceRead \cap Range(remote') = {}]_vars

\* a PUT removed a variant of the other writer from the product
C3_Witness == dropped # {}

\* C4: a creation POST answered with an error status, or with a response
\* that has no usable product id, ends the build with a failed BuildResult
\* and no GET or PUT is issued.
C4_CreationFailureStopsBuild ==
    (Len(calls) > 0 /\ calls[1].ans \in {"err", "noresult", "noid", "nullid"}) =>
        /\ Done
        /\ ~result.success
        /\ Methods = {"POST"}

\* C5: when the final verification GET fails (error response, or raises)
\* in a build whose earlier steps succeeded, build returns success=true
\* with the product id and the variant list and count last known in memory.
C5_VerificationFailureDegrades ==
    (/\ impl \in {"modular", "modules"}
     /\ Done
     /\ Len(calls) > 0
     /\ LastCall.step = "final"
     /\ LastCall.r \in {"err", "raise"}
     /\ \A i \in 1..(Len(calls) - 1) : calls[i].r = "ok") =>
        /\ result.success
        /\ result.product_id = product_id
        /\ result.sync_variants = sync_variants_result
        /\ result.total_variants_created = Len(sync_variants_result)

\* C6: a vendor call that raises inside the append loop is confined to its
\* batch: the remaining batches still run and build does not return a
\* failed BuildResult because of it.
C6_LoopExceptionConfined ==
    (/\ impl \in {"modular", "core"}
     /\ Done
     /\ \E i \in 1..Len(calls) : calls[i].step \in LoopSteps /\ calls[i].r = "raise") =>
        /\ BatchesSent = 1..total_batches
        /\ result.success

\* C7: when a build has completed initial creation and its final read
\* succeeds, the BuildResult has success=true, total_variants_requested is
\* the number of variants loaded and total_variants_created the number of
\* variants in the final read, also when fewer were created than requested.
C7_CountsReported ==
    (/\ impl \in {"modular", "modules"}
     /\ Done
     /\ Len(calls) > 0
     /\ LastCall.step = "final"
     /\ LastCall.r = "ok") =>
        /\ result.success
        /\ result.total_variants_requested = Len(variants)
        /\ result.total_variants_created = Len(lastRead)

\* a successful build that created fewer variants than requested, after an
\* append batch failed
C7_Witness ==
    /\ Done
    /\ impl = "modular"
    /\ Len(calls) > 0
    /\ LastCall.step = "final"
    /\ LastCall.r = "ok"
    /\ result.success
    /\ result.total_variants_created < result.total_variants_requested
    /\ \E k \in 1..Len(putLog) : putLog[k].resp = "err"

\* C8: when the upload of the primary design fails during asset
\* preparation, build returns a failed BuildResult whose error carries the
\* exception's message; no vendor call is made and no remote product is
\* created.
C8_PrimaryUploadFailureAborts ==
    assets.design \in {"missing", "neterr"} =>
        /\ Done
        /\ ~result.success
        /\ UploadError(assets.design) \in Range(result.error)
        /\ calls = <<>>
        /\ remoteProducts = 0

\* the primary upload failed on the network and the build has returned
C8_Witness == assets.design = "neterr" /\ Done /\ uploads = 1

\* C9: for as_colour_1120 with ricami/<design>.png absent, the core build
\* fails with the precondition error before any network call: no
\* asset-store upload, no vendor call, no remote product.
C9_BeaniePreconditionBeforeNetwork ==
    (impl = "core" /\ product_type = "as_colour_1120" /\ assets.special = "absent") =>
        /\ Done
        /\ result = Caught("core", "File ottimizzato per beanie non trovato")
        /\ uploads = 0
        /\ calls = <<>>
        /\ remoteProducts = 0

\* ------------------------------------------------------------------------
\* Properties of the split (specification SpecPlan)
\* ------------------------------------------------------------------------
RECURSIVE Flatten(_)
Flatten(ss) == IF ss = <<>> THEN <<>> ELSE Head(ss) \o Flatten(Tail(ss))

\* least m with m * b >= a, and 0 when a <= 0
Ceil(a, b) == IF a <= 0 THEN 0 ELSE CHOOSE m \in 1..a : m * b >= a /\ (m - 1) * b < a

Sizes(ss) == [i \in 1..Len(ss) |-> Len(ss[i])]

\* C2: for a variant list of length N, initial batch size K and append
\* batch size B, the split yields an initial batch of min(N, K) variants and
\* ceil((N - K) / B) append batches (none when N <= K), each of 1..B
\* variants, and the initial batch followed by the append batches in order
\* is the original list in its original order; 45 variants with K = 8 and
\* B = 10 give 8 and 10, 10, 10, 7.
C2_SplitSizes ==
    pc = "split_done" =>
        LET N == Len(variants)
            K == InitialSize(impl)
        IN  /\ Len(batches) = 1 + Ceil(N - K, batch_size)
            /\ Len(batches[1]) = Min(N, K)
            /\ \A i \in 2..Len(batches) :
                  Len(batches[i]) >= 1 /\ Len(batches[i]) <= batch_size
            /\ Flatten(batches) = variants
            /\ (N = 45 /\ K = 8) => Sizes(batches) = <<8, 10, 10, 10, 7>>

\* the split of 45 variants by the modular builder is complete, its last
\* append batch being a partial one
C2_Witness ==
    /\ pc = "split_done"
    /\ impl = "modular"
    /\ Len(variants) = 45
    /\ Len(batches) = 5
    /\ Len(batches[5]) = 7

\* ------------------------------------------------------------------------
\* Properties of the fleet modes (specification SpecFleet)
\* ------------------------------------------------------------------------
IsPrefix(s, t) == Len(s) <= Len(t) /\ SubSeq(t, 1, Len(s)) = s

\* the (design, product type) pairs of the mode's iteration, in its order
ExpectedPairs ==
    LET D == Len(design_files)
        P == Len(available_products)
    IN  CASE mode = "bp_single" ->
                 [k \in 1..D |-> <<design_files[k], available_products[1]>>]
          [] mode = "bp_massive" ->
                 [k \in 1..(D * P) |-> <<design_files[((k - 1) \div P) + 1],
                                         available_products[((k - 1) % P) + 1]>>]
          [] OTHER ->
                 [k \in 1..P |-> <<design_files[1], available_products[k]>>]

\* C10: in every fleet mode (all product types for one design, all designs
\* for one product type, all designs x all product types) the orchestrator
\* invokes the builder exactly once for every pair of the iteration, in
\* iteration order, whatever builds fail, and then returns the aggregate
\* result: it never ends by raising, and what it has invoked is always the
\* beginning of the iteration and, on return, all of it.
C10_FleetCompletesIteration ==
    mode \in FleetModes =>
        /\ IsPrefix(invoked, ExpectedPairs)
        /\ fleet_pc # "raised"
        /\ fleet_pc = "returned" => (invoked = ExpectedPairs /\ aggregate # Pending)

GwAnswers == {"ok", "err", "429", "timeout", "conn"}
Transport == {"timeout", "conn"}

Interval == min_request_interval * TicksPerSecond
Ticks(seconds) == seconds * TicksPerSecond

\* time passes: both spans grow, counted up to the minimum interval
Adv(e, d) == [completion |-> Min(e.completion + d, Interval),
              recorded |-> Min(e.recorded + d, Interval),
              any |-> e.any]

\* the retries parameter of each gateway
RetryBound(g) ==
    CASE g = "modular" -> retries_modular
      [] g = "core" -> retries_core
      [] OTHER -> retries_modules

\* passes of the loop: range(retries + 1) in product_creator_modular,
\* range(retries) in the other two
LoopLen(g) == IF g = "modular" THEN retries_modular + 1 ELSE RetryBound(g)

RECURSIVE Pow2(_)
Pow2(n) == IF n = 0 THEN 1 ELSE 2 * Pow2(n - 1)

Retry(seconds) == [kind |-> "retry", sleep |-> seconds]
GiveBody == [kind |-> "return", sleep |-> 0]
GiveUp == [kind |-> "raise", sleep |-> 0]

\* variant of Decide that hands the caller a body when the transport
\* keeps failing
Decide_BodyOnExhaustion(g, att, ans, ra) ==
    IF ans \in Transport /\ att < 1 THEN Retry(1) ELSE GiveBody

\* what a pass of the loop does with the request's end
Decide(g, att, ans, ra) ==
    CASE g = "modular" ->
           IF ans = "timeout"
           THEN (IF att < retries_modular THEN Retry((att + 1) * 5) ELSE GiveUp)
           ELSE IF ans = "conn"
           THEN (IF att < retries_modular THEN Retry((att + 1) * 3) ELSE GiveUp)
           ELSE GiveBody
      [] g = "core" ->
           IF ans = "ok" THEN GiveBody
           ELSE IF ans = "429" /\ att < retries_core - 1 THEN Retry(ra)
           \* raise_for_status: HTTPError is a RequestException
           ELSE IF att < retries_core - 1 THEN Retry(Pow2(att))
           ELSE GiveUp
      [] OTHER ->
           IF ans \in Transport
           THEN (IF att < retries_modules - 1 THEN Retry((att + 1) * 2) ELSE GiveUp)
           ELSE GiveBody

\* _wait_for_rate_limit: sleep what is missing to the minimum interval
\* since last_request_time (modules gateway only)
WaitForRateLimit(g, e) ==
    IF g = "modules" /\ e.recorded < Interval THEN Interval - e.recorded ELSE 0

\* a request has completed: a response sets last_request_time in the
\* modules gateway, a transport failure does not (a timeout has lasted
\* longer than the minimum interval)
Completed(e, ans) ==
    [completion |-> 0,
     recorded |-> IF ans \in Transport
                  THEN (IF ans = "timeout" THEN Interval ELSE e.recorded)
                  ELSE 0,
     any |-> TRUE]

gwRest == <<fmVars, plVars, planVars, fleetVars, buildVars, pc, batch_num, product_type,
            product_id, sync_variants_result, result, calls, uploads, assets,
            vendorVars, lastRead, putLog, otherVars>>

GwInit ==
    /\ FmIdle
    /\ PlIdle
    /\ PlanIdle
    /\ FleetIdle
    /\ RestIdle
    /\ impl = "modular"
    /\ variants = <<>>
    /\ pc = "idle"
    /\ batch_num = 0
    /\ gw \in Impls
    /\ gw_pc = "idle"
    /\ attempt = 0
    \* last_request_time = 0: the epoch is long ago
    /\ elapsed = [completion |-> Interval, recorded |-> Interval, any |-> FALSE]
    /\ log = <<>>
    /\ gw_outcome = Pending

\* the caller makes its next call, any time after the previous one ended
GwCall ==
    /\ gw_pc \in {"idle", "returned", "raised"}
    /\ \E gap \in 0..Interval : elapsed' = Adv(elapsed, gap)
    /\ attempt' = 0
    /\ gw_pc' = "attempt"
    /\ log' = <<>>
    /\ gw_outcome' = Pending
    /\ UNCHANGED <<gwRest, gw>>

\* one pass of the retry loop: the wait, the request, what follows
GwAttempt ==
    /\ gw_pc = "attempt"
    /\ \E ans \in GwAnswers, ra \in 0..MaxRetryAfter :
         /\ (ans = "429") = (ra > 0)
         /\ LET waited == Adv(elapsed, WaitForRateLimit(gw, elapsed))
                d == Decide(gw, attempt, ans, ra)
                entry == [attempt |-> attempt, ans |-> ans, retry_after |-> ra,
                          prior |-> elapsed.any, gap |-> waited.completion,
                          next |-> d.kind, slept |-> d.sleep]
            IN  /\ log' = Append(log, entry)
                /\ elapsed' = Adv(Completed(waited, ans), Ticks(d.sleep))
                /\ CASE d.kind = "retry" ->
                          /\ attempt' = attempt + 1
                          /\ gw_pc' = "attempt"
                          /\ gw_outcome' = gw_outcome
                     [] d.kind = "return" ->
                          /\ attempt' = attempt
                          /\ gw_pc' = "returned"
                          /\ gw_outcome' = [raised |-> FALSE, body |-> ans]
                     [] OTHER ->
                          /\ attempt' = attempt
                          /\ gw_pc' = "raised"
                          /\ gw_outcome' = [raised |-> TRUE, body |-> "none"]
    /\ UNCHANGED <<gwRest, gw>>

GwNext == GwCall \/ GwAttempt

SpecGateway == GwInit /\ [][GwNext]_vars

\* the loop is scheduled until the call ends
SpecGatewayFair == SpecGateway /\ WF_vars(GwAttempt)

\* ------------------------------------------------------------------------
\* Properties of the gateways (specifications SpecGateway, SpecGatewayFair)
\* ------------------------------------------------------------------------
Entries == 1..Len(log)
AllTransport == \A i \in Entries : log[i].ans \in Transport

\* C12: a request answered with a parsed JSON body and a 4xx/5xx status is
\* the last request of its call and the call returns that body: the
\* gateway neither retries it nor raises.
C12_ErrorBodyReturnedAtOnce ==
    \A i \in Entries :
        log[i].ans = "err" =>
            /\ log[i].next = "return"
            /\ gw_outcome = [raised |-> FALSE, body |-> "err"]

\* C13, the bound: in a call whose every request ends in a timeout or a
\* connection error the gateway sends no more retries than its retries
\* parameter, goes on only while its loop is not over, never returns a
\* body, and raises once the loop is over.
C13_Bounded ==
    (gw \in Impls /\ log # <<>> /\ AllTransport) =>
        /\ Len(log) - 1 <= RetryBound(gw)
        /\ gw_pc # "returned"
        /\ gw_pc = "attempt" => Len(log) < LoopLen(gw)
        /\ gw_pc = "raised" => (Len(log) = LoopLen(gw) /\ gw_outcome.raised)

C14_RetryAfterHonoured ==
    gw \in {"core", "modular"} =>
        \A i \in Entries :
            log[i].ans = "429" =>
                /\ log[i].next = "retry"
                /\ log[i].slept = log[i].retry_after

\* C20: through the modules gateway every request but the first starts at
\* least the minimum inter-request interval after the previous request
\* completed.
C20_MinimumSpacing ==
    gw = "modules" =>
        \A i \in Entries : log[i].prior => log[i].gap >= Interval

\* ------------------------------------------------------------------------
\* The file manager alone (specification SpecFiles): upload requests made
\* through FileManager._upload_with_cache over CloudinaryUploader.upload_image
\* ------------------------------------------------------------------------
Paths == {<<"path", i>> : i \in 1..MaxPaths}
NoUrl == <<"none">>

\* the secure_url of the n-th upload of a path: the public id carries the
\* upload's timestamp, so every upload gets a URL of its own
Url(path, n) == <<"url", path, n>>

\* how an upload that reaches the uploader can end
StoreOutcomes == {"ok", "missing", "neterr"}

\* CloudinaryUploader.upload_image: [images, url, raised, sent]
UploadImage(images, path, n, out) ==
    IF images[path] # NoUrl
    THEN [images |-> images, url |-> images[path], raised |-> FALSE, sent |-> FALSE]
    ELSE IF out = "missing"
    THEN [images |-> images, url |-> NoUrl, raised |-> TRUE, sent |-> FALSE]
    ELSE IF out = "neterr"
    THEN [images |-> images, url |-> NoUrl, raised |-> TRUE, sent |-> TRUE]
    ELSE [images |-> [images EXCEPT ![path] = Url(path, n)],
          url |-> Url(path, n), raised |-> FALSE, sent |-> TRUE]

\* variant of UploadWithCache that records the path also when the upload
\* has raised
UploadWithCache_CachesFailure(cache, images, path, n, out) ==
    LET up == UploadImage(images, path, n, out)
    IN  [cache |-> [cache EXCEPT ![path] = Url(path, n)], images |-> up.images,
         url |-> up.url, raised |-> up.raised, sent |-> up.sent]

\* FileManager._upload_with_cache: [cache, images, url, raised, sent]
UploadWithCache(cache, images, path, n, out) ==
    IF cache[path] # NoUrl
    THEN [cache |-> cache, images |-> images, url |-> cache[path],
          raised |-> FALSE, sent |-> FALSE]
    ELSE LET up == UploadImage(images, path, n, out)
         IN  [cache |-> IF up.raised THEN cache
                        ELSE [cache EXCEPT ![path] = up.url],
              images |-> up.images, url |-> up.url, raised |-> up.raised,
              sent |-> up.sent]

fmRest == <<gwVars, plVars, planVars, fleetVars, buildVars, pc, batch_num, product_type,
            product_id, sync_variants_result, result, calls, uploads, assets,
            vendorVars, lastRead, putLog, otherVars>>

FmInit ==
    /\ GwIdle
    /\ PlIdle
    /\ PlanIdle
    /\ FleetIdle
    /\ RestIdle
    /\ impl = "modular"
    /\ variants = <<>>
    /\ pc = "idle"
    /\ batch_num = 0
    /\ fm = [cache |-> [p \in Paths |-> NoUrl],
             uploaded_images |-> [p \in Paths |-> NoUrl],
             sent |-> [p \in Paths |-> 0],
             stored |-> [p \in Paths |-> 0],
             resent |-> {},
             returned |-> [p \in Paths |-> {}],
             before |-> [p \in Paths |-> NoUrl],
             failed |-> FALSE]

\* one request for a path; sent counts the requests that reached the asset
\* store, stored those that succeeded, resent the paths sent again after a
\* success, returned the URLs handed out since the cache was last cleared
FM_Upload ==
    /\ fm # [idle |-> TRUE]
    /\ \E path \in Paths, out \in StoreOutcomes :
         LET r == UploadWithCache(fm.cache, fm.uploaded_images, path,
                                  fm.sent[path] + 1, out)
         IN  /\ r.sent => fm.sent[path] < MaxSends
             /\ fm' = [cache |-> r.cache,
                       uploaded_images |-> r.images,
                       sent |-> IF r.sent
                                THEN [fm.sent EXCEPT ![path] = @ + 1]
                                ELSE fm.sent,
                       stored |-> IF r.sent /\ ~r.raised
                                  THEN [fm.stored EXCEPT ![path] = @ + 1]
                                  ELSE fm.stored,
                       resent |-> IF r.sent /\ fm.stored[path] > 0
                                  THEN fm.resent \cup {path}
                                  ELSE fm.resent,
                       returned |-> IF r.raised THEN fm.returned
                                    ELSE [fm.returned EXCEPT ![path] = @ \cup {r.url}],
                       before |-> fm.cache,
                       failed |-> r.raised]
    /\ UNCHANGED fmRest

\* FileManager.clear_cache: a new session begins; the uploader keeps its own
FM_ClearCache ==
    /\ fm # [idle |-> TRUE]
    /\ \E p \in Paths : fm.cache[p] # NoUrl
    /\ fm' = [fm EXCEPT !.cache = [p \in Paths |-> NoUrl],
                        !.returned = [p \in Paths |-> {}],
                        !.before = [p \in Paths |-> NoUrl],
                        !.failed = FALSE]
    /\ UNCHANGED fmRest

FmNext == FM_Upload \/ FM_ClearCache

SpecFiles == FmInit /\ [][FmNext]_vars

\* ------------------------------------------------------------------------
\* Properties of the file manager (specification SpecFiles)
\* ------------------------------------------------------------------------
\* C15: within one FileManager session each path is sent to the asset
\* store at most once successfully and never again after that, every
\* request for a path returns the same URL, and a request that fails
\* leaves the cache as it was.
C15_OneUrlPerPath ==
    fm # [idle |-> TRUE] =>
        /\ \A p \in Paths :
              /\ fm.stored[p] <= 1
              /\ Cardinality(fm.returned[p]) <= 1
              /\ fm.cache[p] # NoUrl => fm.returned[p] = {fm.cache[p]}
        /\ fm.resent = {}
        /\ fm.failed => fm.cache = fm.before

\* a path whose first upload failed has been uploaded by a later request
\* and then served from the cache, while a request for another path failed
C15_Witness ==
    /\ fm # [idle |-> TRUE]
    /\ \E p \in Paths :
          /\ fm.sent[p] = 2
          /\ fm.stored[p] = 1
          /\ fm.cache[p] = Url(p, 2)
    /\ fm.failed

\* ---------------------------------------------------------------------
\* The placement resolver alone: the two resolvers, the position catalogs
\* they read, the FileConfig lists they return, and what a caller or the
\* hat utility can change afterwards.  Lengths are in tenths of a unit.
\* ---------------------------------------------------------------------

Resolvers == {"core", "placement_config"}

Slot(t, d) == [type |-> t, design_type |-> d]

\* config/products.py, the placements of each product in order
PRODUCTS ==
    [gildan_5000 |-> <<Slot("embroidery_chest_left", "embroidery"),
                       Slot("embroidery_sleeve_left_top", "embroidery"),
                       Slot("back", "dtg")>>,
     gildan_18000 |-> <<Slot("embroidery_chest_left", "embroidery"),
                        Slot("embroidery_wrist_left", "embroidery"),
                        Slot("back", "dtg")>>,
     gildan_18500 |-> <<Slot("embroidery_chest_left", "embroidery"),
                        Slot("embroidery_wrist_left", "embroidery"),
                        Slot("back", "dtg")>>,
     as_colour_1120 |-> <<Slot("embroidery_front", "embroidery")>>,
     yupoong_6089m |-> <<Slot("embroidery_front", "embroidery"),
                         Slot("embroidery_left", "embroidery")>>]

\* placement_config.py, the placements of each product in order
PRODUCT_PLACEMENTS ==
    [gildan_5000 |-> <<Slot("embroidery_chest_left", "embroidery"),
                       Slot("embroidery_sleeve_left_top", "embroidery"),
                       Slot("back", "dtg")>>,
     gildan_18000 |-> <<Slot("embroidery_chest_left", "embroidery"),
                        Slot("embroidery_wrist_left", "embroidery"),
                        Slot("back", "dtg")>>,
     gildan_18500 |-> <<Slot("embroidery_chest_left", "embroidery"),
                        Slot("embroidery_wrist_left", "embroidery"),
                        Slot("back", "dtg")>>,
     as_colour_1120 |-> <<Slot("embroidery_chest_left", "embroidery"),
                          Slot("embroidery_sleeve_left_top", "embroidery"),
                          Slot("back", "dtg")>>,
     yupoong_6089m |-> <<Slot("embroidery_front", "embroidery"),
                         Slot("embroidery_left", "embroidery")>>]

\* the products whose slots the core resolver treats by its own rules
HatProducts == {"yupoong_6089m", "as_colour_1120"}

get_product_placements_Consuming(resolver, ptype) ==
    LET placements == IF resolver = "core" THEN PRODUCTS[ptype]
                      ELSE PRODUCT_PLACEMENTS[ptype]
    IN  IF pl.last.called THEN SubSeq(placements, 1, Len(placements) - 1)
        ELSE placements

get_product_placements(resolver, ptype) ==
    IF resolver = "core" THEN PRODUCTS[ptype] ELSE PRODUCT_PLACEMENTS[ptype]

Box(aw, ah, w, h, t, l, lim) ==
    [area_width |-> aw, area_height |-> ah, width |-> w, height |-> h,
     top |-> t, left |-> l, limit_to_print_area |-> lim]

BoxFields == {"area_width", "area_height", "width", "height", "top", "left",
              "limit_to_print_area"}

\* placeholder of a FileConfig that has no "position" key
ZeroBox == Box(0, 0, 0, 0, 0, 0, FALSE)

HAT_PLACEMENTS ==
    [embroidery_front |-> Box(120, 80, 50, 40, 25, 15, TRUE),
     embroidery_left |-> Box(80, 60, 30, 25, 15, 25, TRUE),
     embroidery_right |-> Box(80, 60, 30, 25, 15, 25, TRUE)]

SLEEVE_PLACEMENTS ==
    [embroidery_sleeve_left_top |-> Box(100, 150, 30, 30, 95, 35, FALSE),
     embroidery_sleeve_right_top |-> Box(100, 150, 30, 30, 95, 35, FALSE),
     embroidery_wrist_left |-> Box(80, 120, 24, 24, 76, 28, FALSE),
     embroidery_wrist_right |-> Box(80, 120, 24, 24, 76, 28, FALSE)]

CHEST_PLACEMENTS ==
    [embroidery_chest_left |-> Box(180, 240, 20, 20, 30, 40, TRUE),
     embroidery_chest_right |-> Box(180, 240, 40, 40, 30, 100, TRUE),
     embroidery_chest_center |-> Box(180, 240, 50, 50, 40, 65, TRUE)]

\* {**f, **g}
Merge(f, g) ==
    [k \in DOMAIN f \cup DOMAIN g |-> IF k \in DOMAIN g THEN g[k] ELSE f[k]]

ALL_PLACEMENTS == Merge(Merge(HAT_PLACEMENTS, SLEEVE_PLACEMENTS), CHEST_PLACEMENTS)

UNIVERSAL_SLEEVE_OFFSET ==
    [embroidery_sleeve_left_top |-> Box(100, 150, 30, 30, 95, 35, FALSE),
     embroidery_sleeve_right_top |-> Box(100, 150, 30, 30, 95, 35, FALSE),
     embroidery_wrist_left |-> Box(80, 120, 24, 24, 76, 28, FALSE),
     embroidery_wrist_right |-> Box(80, 120, 24, 24, 76, 28, FALSE)]

UNIVERSAL_CHEST_OFFSET ==
    [embroidery_chest_left |-> Box(180, 240, 20, 20, 30, 40, TRUE),
     embroidery_chest_right |-> Box(180, 240, 40, 40, 30, 100, TRUE),
     embroidery_chest_center |-> Box(180, 240, 50, 50, 40, 65, TRUE)]

\* the catalog a resolver reads its positions from, as the module defines it
CatalogOf(resolver) ==
    IF resolver = "core" THEN ALL_PLACEMENTS
    ELSE Merge(UNIVERSAL_SLEEVE_OFFSET, UNIVERSAL_CHEST_OFFSET)

\* asset URLs: a URL the caller holds, or NoUrl for None and for ""
AssetUrl(kind) == <<"url", kind>>
Present(u) == u # NoUrl

\* what the loop does with a slot it leaves out
Skip == <<"skip">>

\* the URLs a caller can hand in; the primary is there because asset
\* preparation stops the build without it; logo_black_url is set for
\* yupoong_6089m alone, and create_variant_files_config has no parameter
\* for it
UrlInputs(resolver, ptype) ==
    {[design_url |-> AssetUrl("design"), logo_url |-> l, upscaled_url |-> u,
      logo_black_url |-> b] :
        l \in {NoUrl, AssetUrl("logo")},
        u \in {NoUrl, AssetUrl("upscaled")},
        b \in IF resolver = "core" /\ ptype = "yupoong_6089m"
              THEN {NoUrl, AssetUrl("logo_black")}
              ELSE {NoUrl}}

Options_Always(design_type) ==
    <<[id |-> "auto_thread_color", value |-> TRUE]>>

\* "options" of a FileConfig; <<>> when the key is not set
Options(design_type) ==
    IF design_type = "embroidery"
    THEN <<[id |-> "auto_thread_color", value |-> TRUE]>>
    ELSE <<>>

\* the base FileConfig of the loop, before a position is attached; shared
\* tells whether "position" is the catalog's own entry or an object of its own
FileConfig(placement_type, design_type, url) ==
    [type |-> placement_type, url |-> url, options |-> Options(design_type),
     has_position |-> FALSE, shared |-> FALSE, position |-> ZeroBox]

apply_position_Shared(catalog, placement_type, file_config) ==
    IF placement_type \in DOMAIN catalog
    THEN [file_config EXCEPT !.has_position = TRUE, !.shared = TRUE]
    ELSE file_config

\* position = ALL_PLACEMENTS.get(type); if position: position.copy()
apply_position(catalog, placement_type, file_config) ==
    IF placement_type \in DOMAIN catalog
    THEN [file_config EXCEPT !.has_position = TRUE,
                             !.position = catalog[placement_type]]
    ELSE file_config

apply_universal_positioning(catalog, placement_type, file_config) ==
    IF placement_type \in DOMAIN UNIVERSAL_SLEEVE_OFFSET
    THEN [file_config EXCEPT !.has_position = TRUE,
                             !.position = catalog[placement_type]]
    ELSE IF placement_type \in DOMAIN UNIVERSAL_CHEST_OFFSET
    THEN [file_config EXCEPT !.has_position = TRUE,
                             !.position = catalog[placement_type]]
    ELSE file_config

StandardUrl_LogoSlotFallsBack(i, placement_type, urls) ==
    IF i = 0 THEN urls.design_url
    ELSE IF i = 1 THEN (IF Present(urls.logo_url) THEN urls.logo_url
                        ELSE urls.design_url)
    ELSE IF placement_type = "back" /\ Present(urls.upscaled_url)
    THEN urls.upscaled_url
    ELSE Skip

\* core, the rule for the other products; i counts from 0
StandardUrl(i, placement_type, urls) ==
    IF i = 0 THEN urls.design_url
    ELSE IF i = 1 /\ Present(urls.logo_url) THEN urls.logo_url
    ELSE IF placement_type = "back" /\ Present(urls.upscaled_url)
    THEN urls.upscaled_url
    ELSE Skip

HatUrl_SideFallsBack(ptype, placement_type, urls) ==
    IF placement_type = "embroidery_front" THEN urls.design_url
    ELSE IF ptype = "yupoong_6089m" /\ placement_type = "embroidery_left"
    THEN (IF Present(urls.logo_black_url) THEN urls.logo_black_url
          ELSE IF Present(urls.logo_url) THEN urls.logo_url
          ELSE urls.design_url)
    ELSE Skip

\* core, the rules of the two hats
HatUrl(ptype, placement_type, urls) ==
    IF ptype = "yupoong_6089m"
    THEN IF placement_type = "embroidery_front" THEN urls.design_url
         ELSE IF placement_type = "embroidery_left"
         THEN LET url == IF Present(urls.logo_black_url)
                         THEN urls.logo_black_url ELSE urls.logo_url
              IN  IF Present(url) THEN url ELSE Skip
         ELSE Skip
    ELSE IF placement_type = "embroidery_front" THEN urls.design_url
         ELSE Skip

\* placement_config, the one rule of every product; i counts from 0
VariantUrl(i, placement_type, urls) ==
    IF i = 0 THEN urls.design_url
    ELSE IF i = 1 /\ Present(urls.logo_url) THEN urls.logo_url
    ELSE IF placement_type = "back" /\ Present(urls.upscaled_url)
    THEN urls.upscaled_url
    ELSE Skip

\* the loop of ProductBuilder._build_files_config from slot i on
RECURSIVE build_files_config(_, _, _, _, _)
build_files_config(catalog, ptype, urls, i, files_config) ==
    LET placements == get_product_placements("core", ptype) IN
    IF i = Len(placements) THEN files_config
    ELSE LET placement == placements[i + 1]
             url == IF ptype \in HatProducts
                    THEN HatUrl(ptype, placement.type, urls)
                    ELSE StandardUrl(i, placement.type, urls)
             file_config == FileConfig(placement.type, placement.design_type, url)
         IN  IF url = Skip
             THEN build_files_config(catalog, ptype, urls, i + 1, files_config)
             ELSE build_files_config(catalog, ptype, urls, i + 1,
                      Append(files_config,
                             apply_position(catalog, placement.type, file_config)))

\* the loop of create_variant_files_config from slot i on
RECURSIVE create_variant_files_config(_, _, _, _, _)
create_variant_files_config(catalog, ptype, urls, i, files_config) ==
    LET placements == get_product_placements("placement_config", ptype) IN
    IF i = Len(placements) THEN files_config
    ELSE LET placement == placements[i + 1]
             url == VariantUrl(i, placement.type, urls)
             file_config == FileConfig(placement.type, placement.design_type, url)
         IN  IF url = Skip
             THEN create_variant_files_config(catalog, ptype, urls, i + 1,
                                              files_config)
             ELSE create_variant_files_config(catalog, ptype, urls, i + 1,
                      Append(files_config,
                             apply_universal_positioning(catalog, placement.type,
                                                         file_config)))

ResolveWith(resolver, catalog, ptype, urls) ==
    IF resolver = "core"
    THEN build_files_config(catalog, ptype, urls, 0, <<>>)
    ELSE create_variant_files_config(catalog, ptype, urls, 0, <<>>)

\* the position object a FileConfig holds, and the FileConfig by value
Deref(catalog, fc) == IF fc.shared THEN catalog[fc.type] ELSE fc.position

Value(catalog, fc) ==
    [type |-> fc.type, url |-> fc.url, options |-> fc.options,
     has_position |-> fc.has_position,
     position |-> IF fc.has_position THEN Deref(catalog, fc) ELSE ZeroBox]

Values(catalog, files) == [i \in 1..Len(files) |-> Value(catalog, files[i])]

NoResult == [called |-> FALSE, files |-> <<>>, out |-> <<>>, same_config |-> FALSE]

\* no live FileConfig has been written to since it was returned
Pristine ==
    /\ Values(pl.catalog, pl.prev.files) = pl.prev.out
    /\ Values(pl.catalog, pl.last.files) = pl.last.out

\* the values update_hat_position is called with
HatArgs == {"embroidery_front", "embroidery_left"}
HatOffsets == {30}
\* a placement that is not a hat placement
OtherArgs == {"embroidery_chest_left"}

\* what a caller writes to a field of a position
Written(field, old) == IF field = "limit_to_print_area" THEN ~old ELSE 0

plRest == <<gwVars, fmVars, planVars, fleetVars, buildVars, pc, batch_num,
            product_type, product_id, sync_variants_result, result, calls,
            uploads, assets, vendorVars, lastRead, putLog, otherVars>>

PlInit ==
    /\ GwIdle
    /\ FmIdle
    /\ PlanIdle
    /\ FleetIdle
    /\ RestIdle
    /\ impl = "modular"
    /\ variants = <<>>
    /\ pc = "idle"
    /\ batch_num = 0
    /\ \E resolver \in Resolvers, ptype \in DOMAIN PRODUCTS :
         \E urls \in UrlInputs(resolver, ptype) :
            pl = [resolver |-> resolver, product_type |-> ptype, urls |-> urls,
                  catalog |-> CatalogOf(resolver),
                  prev |-> NoResult, last |-> NoResult, changed |-> FALSE,
                  raised |-> "none"]

\* one call of the resolver; out is the list by value as it was returned,
\* same_config whether the catalog is as the call before left it
PL_Resolve ==
    /\ LET files == ResolveWith(pl.resolver, pl.catalog, pl.product_type, pl.urls)
       IN  pl' = [pl EXCEPT !.prev = pl.last,
                            !.last = [called |-> TRUE, files |-> files,
                                      out |-> Values(pl.catalog, files),
                                      same_config |-> ~pl.changed],
                            !.changed = FALSE]
    /\ UNCHANGED plRest

\* a caller assigns a field of the position of a FileConfig it was given
Caller_SetPositionField ==
    /\ Pristine
    /\ \E w \in {"prev", "last"} :
         /\ pl[w].called
         /\ \E i \in 1..Len(pl[w].files), field \in BoxFields :
              LET fc == pl[w].files[i]
                  v == Written(field, Deref(pl.catalog, fc)[field])
              IN  /\ fc.has_position
                  /\ IF fc.shared
                     THEN pl' = [pl EXCEPT !.catalog[fc.type][field] = v]
                     ELSE pl' = [pl EXCEPT ![w].files[i].position[field] = v]
    /\ UNCHANGED plRest

\* variant of update_hat_position that moves every hat placement
update_hat_position_AllHats ==
    /\ pl.resolver = "core"
    /\ \E top \in HatOffsets :
         /\ pl' = [pl EXCEPT !.catalog =
                      [q \in DOMAIN pl.catalog |->
                          IF q \in DOMAIN HAT_PLACEMENTS
                          THEN [pl.catalog[q] EXCEPT !.top = top]
                          ELSE pl.catalog[q]],
                             !.changed = TRUE, !.raised = "none"]
    /\ UNCHANGED plRest

\* update_hat_position(placement, top, left) of config/placements.py; the
\* entry of HAT_PLACEMENTS and that of ALL_PLACEMENTS are one object
update_hat_position ==
    /\ pl.resolver = "core"
    /\ \/ \E placement \in OtherArgs :
            /\ placement \notin DOMAIN HAT_PLACEMENTS
            /\ pl' = [pl EXCEPT !.raised = "ValueError"]
       \/ \E placement \in HatArgs, set_top \in BOOLEAN, set_left \in BOOLEAN,
             top \in HatOffsets, left \in HatOffsets :
            LET c1 == IF set_top
                      THEN [pl.catalog EXCEPT ![placement].top = top]
                      ELSE pl.catalog
                c2 == IF set_left
                      THEN [c1 EXCEPT ![placement].left = left]
                      ELSE c1
            IN  /\ placement \in DOMAIN HAT_PLACEMENTS
                /\ c2 # pl.catalog
                /\ pl' = [pl EXCEPT !.catalog = c2, !.changed = TRUE,
                                    !.raised = "none"]
    /\ UNCHANGED plRest

PlNext ==
    \/ PL_Resolve
    \/ Caller_SetPositionField
    \/ update_hat_position

SpecResolver == PlInit /\ [][PlNext]_vars

\* ---------------------------------------------------------------------
\* Properties of the placement resolver
\* ---------------------------------------------------------------------

OnlyPrimary(urls) ==
    /\ Present(urls.design_url)
    /\ ~Present(urls.logo_url)
    /\ ~Present(urls.upscaled_url)
    /\ ~Present(urls.logo_black_url)

\* C16: for every configured product type, a resolution in which only the
\* primary asset URL is available (no logo, no upscaled, no alternate logo)
\* returns exactly one FileConfig, the one of the first slot carrying the
\* primary asset
C16_OnlyPrimaryYieldsOne ==
    (pl.last.called /\ OnlyPrimary(pl.urls)) =>
        /\ Len(pl.last.out) = 1
        /\ pl.last.out[1].url = pl.urls.design_url
        /\ pl.last.out[1].type =
               get_product_placements(pl.resolver, pl.product_type)[1].type

C16_Witness ==
    /\ pl.last.called
    /\ OnlyPrimary(pl.urls)
    /\ pl.resolver = "core"
    /\ pl.product_type = "yupoong_6089m"
    /\ Len(get_product_placements(pl.resolver, pl.product_type)) = 2
    /\ Len(pl.last.out) = 1

\* the products a resolver treats by the generic rule
Generic(resolver, ptype) == resolver = "core" => ptype \notin HatProducts

\* 0-based slots the generic rule fills, and the asset each one carries
FilledSlots(placements, urls) ==
    {i \in 0..(Len(placements) - 1) :
        \/ i = 0
        \/ i = 1 /\ Present(urls.logo_url)
        \/ i > 1 /\ placements[i + 1].type = "back" /\ Present(urls.upscaled_url)}

AssetOfSlot(i, urls) ==
    IF i = 0 THEN urls.design_url
    ELSE IF i = 1 THEN urls.logo_url
    ELSE urls.upscaled_url

SlotOfType(placements, t) ==
    CHOOSE i \in 0..(Len(placements) - 1) : placements[i + 1].type = t

\* C17: for a generic product type the returned list holds, in slot order,
\* the primary asset for slot 0, the logo asset for slot 1 when a logo URL is
\* present, the upscaled asset for a slot of type "back" when it is present,
\* and nothing else; with slots (design, logo, back), primary and logo
\* present and upscaled absent it is exactly the design slot then the logo
\* slot
C17_GenericRule ==
    (pl.last.called /\ Generic(pl.resolver, pl.product_type)) =>
        LET placements == get_product_placements(pl.resolver, pl.product_type)
            out == pl.last.out
            filled == FilledSlots(placements, pl.urls)
        IN  /\ Len(out) = Cardinality(filled)
            /\ \A i \in filled :
                 \E k \in 1..Len(out) :
                    /\ out[k].type = placements[i + 1].type
                    /\ out[k].url = AssetOfSlot(i, pl.urls)
            /\ \A k \in 1..Len(out), m \in 1..Len(out) :
                 k < m => SlotOfType(placements, out[k].type)
                              < SlotOfType(placements, out[m].type)
            /\ (/\ Len(placements) = 3
                /\ placements[3].type = "back"
                /\ Present(pl.urls.logo_url)
                /\ ~Present(pl.urls.upscaled_url))
               => /\ Len(out) = 2
                  /\ out[1].type = placements[1].type
                  /\ out[1].url = pl.urls.design_url
                  /\ out[2].type = placements[2].type
                  /\ out[2].url = pl.urls.logo_url

C17_Witness ==
    /\ pl.last.called
    /\ pl.resolver = "core"
    /\ pl.product_type = "gildan_18000"
    /\ Present(pl.urls.logo_url)
    /\ ~Present(pl.urls.upscaled_url)
    /\ Len(pl.last.out) = 2
    /\ pl.last.out[2].type = "embroidery_wrist_left"

\* the live FileConfigs, as <<result, index>>
Live == {<<w, i>> \in {"prev", "last"} \X (1..3) : i <= Len(pl[w].files)}

\* the positions a call has just attached equal the catalog entries
AttachedEqualsCatalog ==
    \A k \in 1..Len(pl'.last.files) :
        LET fc == pl'.last.files[k] IN
        /\ fc.has_position <=> fc.type \in DOMAIN pl.catalog
        /\ fc.has_position =>
              /\ Deref(pl'.catalog, fc) = pl.catalog[fc.type]
              /\ pl'.last.out[k].position = pl.catalog[fc.type]

\* a write changes the FileConfig it was made to and nothing else
WriteIsLocal ==
    /\ pl'.catalog = pl.catalog
    /\ Cardinality({e \in Live :
          Value(pl'.catalog, pl'[e[1]].files[e[2]])
              # Value(pl.catalog, pl[e[1]].files[e[2]])}) = 1

\* C18: the position attached to a returned FileConfig has the values of the
\* catalog entry of its slot type, and is an object of its own: assigning a
\* field of it leaves the catalog and every other FileConfig, returned
\* earlier or later, as they were
C18_PositionIsOwnCopy ==
    [][/\ PL_Resolve => AttachedEqualsCatalog
       /\ Caller_SetPositionField => WriteIsLocal]_vars

\* a FileConfig of the earlier call was written to, the catalog still has the
\* module's values, and a later call returned the catalog's values again
C18_Witness ==
    /\ pl.prev.called
    /\ pl.last.called
    /\ pl.catalog = CatalogOf(pl.resolver)
    /\ \E i \in 1..Len(pl.prev.files) :
         /\ pl.prev.files[i].has_position
         /\ Value(pl.catalog, pl.prev.files[i]) # pl.prev.out[i]
         /\ pl.last.files[i].has_position
         /\ Value(pl.catalog, pl.last.files[i]).position
                = pl.catalog[pl.last.files[i].type]

Block(b) ==
    LET first == InitialSize(impl) + (b - 1) * batch_size
        n == Min(batch_size, Len(variants) - first)
    IN  [i \in 1..n |-> variants[first + i]]

PutStep == Len(putLog') > Len(putLog)
ThisPut == putLog'[Len(putLog')]

\* C21: every append PUT sends one reference for each variant of the
\* builder's known remote list, in that order, followed by one new payload
\* for each catalog variant of its batch, in batch order (what a 2xx PUT
\* leaves on the product is those references followed by the payloads the
\* vendor accepted); the batches are sent in increasing index, so no
\* catalog variant is sent as a new payload twice
C21_PutSendsKnownThenNew ==
    [][PutStep =>
         /\ ThisPut.refs = sync_variants_result
         /\ \A k \in 1..Len(putLog) : putLog[k].batch < ThisPut.batch
         /\ ThisPut.batch \in 1..total_batches
         /\ Range(Block(ThisPut.batch)) \cap Range(initial_variants) = {}
         /\ \A k \in 1..Len(putLog) :
              Range(Block(ThisPut.batch)) \cap Range(Block(putLog[k].batch)) = {}
         /\ ThisPut.resp = "ok" =>
              \E j \in 0..Len(Block(ThisPut.batch)) :
                 remote' = ThisPut.refs
                             \o SyncVariantsOf(SubSeq(Block(ThisPut.batch), 1, j))]_vars

\* the second append batch has been sent after a first one that succeeded,
\* with the references of a non-empty known list
C21_Witness ==
    /\ Len(putLog) = 2
    /\ putLog[1].resp = "ok"
    /\ putLog[2].resp = "ok"
    /\ putLog[2].batch = 2
    /\ Len(putLog[2].refs) > Len(putLog[1].refs)
    /\ Len(putLog[1].refs) > 0

\* C22: with a single builder and no other writer on the product, no
\* append PUT removes from the remote product a variant that was there just
\* before it, also when the PUT follows a batch whose PUT succeeded and
\* whose re-read GET was answered with an error
C22_PutRemovesNothing ==
    [][(PutStep /\ impl \in {"modular", "modules"} /\ foreignAdded = 0)
          => Range(remote) \subseteq Range(remote')]_vars

\* C23: every append PUT of a build is preceded by a read of the product's
\* variant list made after the previous PUT: a GET precedes the first PUT
\* and a GET lies between any two PUTs, also after a batch whose PUT failed
C23_ReadBeforeEveryPut ==
    impl \in {"modular", "core"} =>
        \A j \in 1..Len(calls) :
            calls[j].m = "PUT" =>
                /\ \E g \in 1..(j - 1) : calls[g].m = "GET"
                /\ \A i \in 1..(j - 1) :
                      calls[i].m = "PUT" =>
                          \E g \in (i + 1)..(j - 1) : calls[g].m = "GET"

\* position of the build in the order load, asset preparation, creation,
\* first read, the append batches in turn, final verification, returned
StepRank ==
    CASE pc = "load" -> 0
      [] pc = "prepare" -> 1
      [] pc = "post" -> 2
      [] pc = "get0" -> 3
      [] pc = "bget" -> 4 + 3 * batch_num
      [] pc = "put" -> 5 + 3 * batch_num
      [] pc = "reget" -> 6 + 3 * batch_num
      [] pc = "final" -> 7 + 3 * total_batches
      [] OTHER -> 8 + 3 * total_batches

\* the calls made so far are in the order of the build
CallsInOrder ==
    /\ \A i \in 1..Len(calls) : calls[i].m = "POST" <=> i = 1
    /\ \A k \in 1..Len(putLog), m \in 1..Len(putLog) :
          k < m => putLog[k].batch < putLog[m].batch
    /\ \A i \in 1..Len(calls) : calls[i].step = "final" => i = Len(calls)
    /\ Len(putLog) = Cardinality({i \in 1..Len(calls) : calls[i].m = "PUT"})

\* C24: the steps of a build follow the order NotStarted, InitialCreated,
\* Appending(1..n), Verified, Succeeded or Failed and none is revisited:
\* one creation POST is requested and it precedes every other vendor call,
\* the append batches are sent in increasing index and each at most once,
\* nothing follows the final verification GET, and once the build has
\* returned, failed or not, no further vendor call is made
C24_StepsInOrder ==
    /\ []CallsInOrder
    /\ [][/\ StepRank' >= StepRank
          /\ (pc' # pc \/ batch_num' # batch_num) => StepRank' > StepRank
          /\ Done => (calls' = calls /\ pc' = pc /\ result' = result)]_vars

\* a build of two append batches that has returned after its final read
C24_Witness ==
    /\ Done
    /\ Len(putLog) = 2
    /\ putLog[1].batch = 1
    /\ putLog[2].batch = 2
    /\ calls[1].m = "POST"
    /\ LastCall.step = "final"
    /\ impl = "modular"
    /\ Len(calls) = 7

\* a build that failed in the append loop and has made no call since
C24_WitnessFailed ==
    /\ Done
    /\ ~result.success
    /\ Len(putLog) = 1
    /\ LastCall.m = "PUT"

\* ---------------------------------------------------------------------
\* The creation POST through its gateway (specification SpecCreate): the
\* one call of _create_initial_product / _create_product, pass by pass of
\* the gateway's retry loop, with what the vendor has done with each request
\* ---------------------------------------------------------------------

\* a request the vendor answers 2xx has created the product; one answered
\* with an error status has not; one that times out on the client may or
\* may not have been processed; a connection error never reached the vendor
Processed(ans) ==
    CASE ans = "ok" -> {TRUE}
      [] ans = "timeout" -> {TRUE, FALSE}
      [] OTHER -> {FALSE}

createRest == <<fmVars, plVars, planVars, fleetVars, buildVars, pc, batch_num,
                product_type, product_id, sync_variants_result, result, calls,
                uploads, assets, remote, lastRead, putLog, otherVars,
                gw, elapsed>>

CreateInit ==
    /\ FmIdle
    /\ PlIdle
    /\ PlanIdle
    /\ FleetIdle
    /\ RestIdle
    /\ impl = "modular"
    /\ variants = <<>>
    /\ pc = "idle"
    /\ batch_num = 0
    /\ gw \in Impls
    /\ gw_pc = "idle"
    /\ attempt = 0
    /\ elapsed = [completion |-> 0, recorded |-> 0, any |-> FALSE]
    /\ log = <<>>
    /\ gw_outcome = Pending

\* the builder asks for the creation: make_request("POST", "/store/products")
Create_Call ==
    /\ gw_pc = "idle"
    /\ gw_pc' = "attempt"
    /\ UNCHANGED <<createRest, attempt, log, gw_outcome, remoteProducts>>

\* one pass of the gateway's loop: the POST is sent, the vendor may process
\* it, and the loop returns, raises or sends the same POST again
Create_Attempt ==
    /\ gw_pc = "attempt"
    /\ \E ans \in GwAnswers :
         \E processed \in Processed(ans) :
            LET d == Decide(gw, attempt, ans, IF ans = "429" THEN 1 ELSE 0) IN
            /\ remoteProducts' = remoteProducts + (IF processed THEN 1 ELSE 0)
            /\ log' = Append(log, [attempt |-> attempt, ans |-> ans,
                                   processed |-> processed, next |-> d.kind])
            /\ CASE d.kind = "retry" ->
                      /\ attempt' = attempt + 1
                      /\ gw_pc' = "attempt"
                      /\ gw_outcome' = gw_outcome
                 [] d.kind = "return" ->
                      /\ attempt' = attempt
                      /\ gw_pc' = "returned"
                      /\ gw_outcome' = [raised |-> FALSE, body |-> ans]
                 [] OTHER ->
                      /\ attempt' = attempt
                      /\ gw_pc' = "raised"
                      /\ gw_outcome' = [raised |-> TRUE, body |-> "none"]
    /\ UNCHANGED createRest

CreateNext == Create_Call \/ Create_Attempt

SpecCreate == CreateInit /\ [][CreateNext]_vars

\* C25: one build creates at most one remote product, whatever transport
\* faults occur, also when the creation POST times out on the client after
\* the vendor has processed it and the gateway sends the POST again
C25_AtMostOneProduct == remoteProducts <= 1

\* C26: whenever build returns a failed BuildResult no product created by
\* that build exists on the vendor side, also when the failure comes after
\* the creation POST succeeded (a failed read right after creation, a
\* failed append)
C26_FailedBuildLeavesNoProduct ==
    (Done /\ ~result.success) => remoteProducts = 0

\* ---------------------------------------------------------------------
\* Further properties of the placement resolver (specification SpecResolver)
\* ---------------------------------------------------------------------

\* C27: for yupoong_6089m the side slot embroidery_left is left out of the
\* resolver's output when the alternate logo asset (logo_black) is absent,
\* whatever other assets are present; when it is present the side slot
\* carries it and the front slot carries the primary asset
C27_SideSlotNeedsAlternateLogo ==
    (pl.last.called /\ pl.resolver = "core"
        /\ pl.product_type = "yupoong_6089m") =>
        LET out == pl.last.out IN
        IF Present(pl.urls.logo_black_url)
        THEN /\ Len(out) = 2
             /\ out[1].type = "embroidery_front"
             /\ out[1].url = pl.urls.design_url
             /\ out[2].type = "embroidery_left"
             /\ out[2].url = pl.urls.logo_black_url
        ELSE \A k \in 1..Len(out) : out[k].type # "embroidery_left"

AutoThreadColor == <<[id |-> "auto_thread_color", value |-> TRUE]>>

\* C28: every FileConfig a resolution returns carries the auto_thread_color
\* option exactly when the design category of its slot is embroidery, and a
\* position exactly when the catalog has a box for its slot type, equal to
\* that box; the FileConfigs follow the order of the product's placement
\* list and no slot appears twice
C28_OptionsPositionOrder ==
    [][PL_Resolve =>
         LET placements == get_product_placements(pl.resolver, pl.product_type)
             out == pl'.last.out
         IN  /\ \A k \in 1..Len(out) :
                  \E i \in 1..Len(placements) :
                     /\ placements[i].type = out[k].type
                     /\ (out[k].options = AutoThreadColor)
                            <=> (placements[i].design_type = "embroidery")
                     /\ out[k].options \in {AutoThreadColor, <<>>}
                     /\ out[k].has_position <=> out[k].type \in DOMAIN pl.catalog
                     /\ out[k].has_position =>
                            out[k].position = pl.catalog[out[k].type]
             /\ \A k \in 1..Len(out), m \in 1..Len(out) :
                  k < m => SlotOfType(placements, out[k].type)
                               < SlotOfType(placements, out[m].type)]_vars

\* a resolution that returned an embroidery slot with option and box, and a
\* printed slot with neither
C28_Witness ==
    /\ pl.last.called
    /\ pl.product_type = "gildan_5000"
    /\ Len(pl.last.out) = 3
    /\ pl.last.out[3].type = "back"
    /\ pl.last.out[3].options = <<>>
    /\ ~pl.last.out[3].has_position
    /\ pl.last.out[2].options = AutoThreadColor
    /\ pl.last.out[2].has_position

\* ---------------------------------------------------------------------
\* Further properties of the fleet modes (specification SpecFleet)
\* ---------------------------------------------------------------------

LiveUnchanged ==
    /\ Values(pl'.catalog, pl'.prev.files) = Values(pl.catalog, pl.prev.files)
    /\ Values(pl'.catalog, pl'.last.files) = Values(pl.catalog, pl.last.files)

\* C30: update_hat_position(p, top, left) changes the top/left values of
\* hat placement p and nothing else: every other field and every other
\* entry of the placement tables is as before, the FileConfigs returned
\* before the update keep their position values and those resolved after
\* it carry the new ones; a call that names a placement that is no hat
\* placement raises an error and leaves the tables as they were
C30_HatUpdateFrame ==
    [][/\ update_hat_position =>
            /\ LiveUnchanged
            /\ \/ /\ pl'.raised = "ValueError"
                  /\ pl'.catalog = pl.catalog
               \/ /\ pl'.raised = "none"
                  /\ \E p \in DOMAIN HAT_PLACEMENTS :
                       /\ \A q \in DOMAIN pl.catalog \ {p} :
                             pl'.catalog[q] = pl.catalog[q]
                       /\ \A f \in BoxFields \ {"top", "left"} :
                             pl'.catalog[p][f] = pl.catalog[p][f]
                       /\ pl'.catalog[p].top \in HatOffsets \cup {pl.catalog[p].top}
                       /\ pl'.catalog[p].left \in HatOffsets \cup {pl.catalog[p].left}
       /\ (PL_Resolve /\ pl.changed) =>
            \A k \in 1..Len(pl'.last.out) :
               pl'.last.out[k].has_position =>
                  pl'.last.out[k].position = pl.catalog[pl'.last.out[k].type]]_vars

\* the front slot was resolved, the hat utility then moved embroidery_front,
\* and a second resolution carries the new top while the first list still
\* holds the old one; the other entries are as the module defines them
C30_Witness ==
    /\ pl.resolver = "core"
    /\ pl.product_type = "yupoong_6089m"
    /\ pl.prev.called
    /\ pl.last.called
    /\ ~pl.last.same_config
    /\ Values(pl.catalog, pl.prev.files)[1].position.top
           = HAT_PLACEMENTS["embroidery_front"].top
    /\ pl.catalog["embroidery_front"].top \in HatOffsets
    /\ Values(pl.catalog, pl.last.files)[1].position.top
           = pl.catalog["embroidery_front"].top
    /\ \A q \in DOMAIN pl.catalog \ {"embroidery_front"} :
          pl.catalog[q] = ALL_PLACEMENTS[q]

\* the utility was called for a placement that is no hat placement
C30_WitnessRaised ==
    /\ pl.raised = "ValueError"
    /\ pl.catalog = ALL_PLACEMENTS
    /\ pl.last.called

====
